---------------------------- MODULE Spec2Model ----------------------------
(***************************************************************************)
(* A model of the ledger engine of main.py: Block (construction and        *)
(* calculate_hash) and Blockchain (genesis, proof_of_work, add_data,       *)
(* is_chain_valid).                                                        *)
(*                                                                         *)
(* Strings are sequences of one-character strings, so that the             *)
(* separator-free concatenation of calculate_hash is modelled character by *)
(* character.  SHA-256 is replaced by a scaled-down digest: a polynomial   *)
(* rolling hash of the bytes of the serialized content, rendered as        *)
(* DigestLen digits of radix Radix (least significant first).  Like the    *)
(* real digest it is a deterministic function of the content string only,  *)
(* its leading digits depend on every character, and it can collide.       *)
(***************************************************************************)
EXTENDS Integers, Sequences, FiniteSets, TLC

(***************************************************************************)
(* Bounds of the model.                                                    *)
(***************************************************************************)
MaxChain == 3        \* add_data is offered while the chain is shorter
MaxWrites == 1       \* outside writes to block fields (tampering)
Radix == 4           \* digit range of the scaled-down digest
DigestLen == 6       \* number of digits of the scaled-down digest
MaxProof == 2100     \* proofs a search is followed through
MaxRuns == 2         \* calls of proof_of_work on one candidate

(***************************************************************************)
(* Inputs.  Timestamps are floats with one decimal, held in tenths of a    *)
(* second (15 is 1.5).  time.time() reads a clock that stands at one of    *)
(* Epochs when the Blockchain is constructed and has advanced by Tick at   *)
(* each later reading.                                                     *)
(***************************************************************************)
Data == {<<"a">>, <<"b", "1">>}
Epochs == {10, 20}
Tick == 15
Difficulties == {0, 2, 6}     \* difficulty, where it is not __init__'s 2
InitialProofs == {0, 7, 2500} \* proof of a candidate handed to proof_of_work

(***************************************************************************)
(* str() of a non-negative int and of a float with one decimal.            *)
(***************************************************************************)
Digits == <<"0", "1", "2", "3", "4", "5", "6", "7", "8", "9">>

RECURSIVE Str(_)
Str(n) == IF n < 10 THEN <<Digits[n + 1]>>
          ELSE Str(n \div 10) \o <<Digits[(n % 10) + 1]>>

StrFloat(t) == Str(t \div 10) \o <<".">> \o Str(t % 10)

(***************************************************************************)
(* str.encode(): the byte of each character that occurs in the model.      *)
(***************************************************************************)
Ord == ("0" :> 48 @@ "1" :> 49 @@ "2" :> 50 @@ "3" :> 51 @@ "4" :> 52 @@
        "5" :> 53 @@ "6" :> 54 @@ "7" :> 55 @@ "8" :> 56 @@ "9" :> 57 @@
        "." :> 46 @@ " " :> 32 @@ "G" :> 71 @@ "B" :> 66 @@ "a" :> 97 @@
        "b" :> 98 @@ "c" :> 99 @@ "e" :> 101 @@ "f" :> 102 @@ "i" :> 105 @@
        "k" :> 107 @@ "l" :> 108 @@ "n" :> 110 @@ "o" :> 111 @@
        "s" :> 115 @@ "x" :> 120)

(***************************************************************************)
(* hashlib.sha256(content.encode()).hexdigest(), scaled down.              *)
(***************************************************************************)
HashModulus == Radix ^ DigestLen
HashMultiplier == 31
HashSeed == 7

RECURSIVE Compress(_, _, _)
Compress(s, i, h) ==
    IF i > Len(s) THEN h
    ELSE Compress(s, i + 1, (h * HashMultiplier + Ord[s[i]]) % HashModulus)

HexDigest(v) ==
    [i \in 1..DigestLen |-> Digits[((v \div (Radix ^ (i - 1))) % Radix) + 1]]

sha256_hexdigest(s) == HexDigest(Compress(s, 1, HashSeed))

(***************************************************************************)
(* Block.calculate_hash and Block.__init__.                                *)
(***************************************************************************)
\* Mutant: the fields are joined with a separator.
block_content_separated(b) ==
    Str(b.index) \o <<" ">> \o b.previous_hash \o <<" ">>
        \o StrFloat(b.timestamp) \o <<" ">> \o b.data \o <<" ">> \o Str(b.proof)

block_content(b) ==
    Str(b.index) \o b.previous_hash \o StrFloat(b.timestamp) \o b.data \o Str(b.proof)

calculate_hash(b) == sha256_hexdigest(block_content(b))

\* Mutant: the constructor does not compute the hash.
Block_no_hash(index, previous_hash, timestamp, data, proof) ==
    [index |-> index, previous_hash |-> previous_hash,
     timestamp |-> timestamp, data |-> data, proof |-> proof, hash |-> <<>>]

Block(index, previous_hash, timestamp, data, proof) ==
    LET b == [index |-> index, previous_hash |-> previous_hash,
              timestamp |-> timestamp, data |-> data, proof |-> proof,
              hash |-> <<>>]
    IN  [b EXCEPT !.hash = calculate_hash(b)]

(***************************************************************************)
(* str.startswith and '0' * n.                                             *)
(***************************************************************************)
StartsWith(s, p) == Len(s) >= Len(p) /\ SubSeq(s, 1, Len(p)) = p

Zeros(n) == [i \in 1..n |-> "0"]

(***************************************************************************)
(* State.                                                                  *)
(***************************************************************************)
VARIABLES
    chain,        \* Blockchain.chain
    difficulty,   \* Blockchain.difficulty
    pc,           \* where add_data stands: "idle", "mining", "mined"
    new_block,    \* add_data's candidate (NoBlock outside add_data)
    op,           \* the operation invoked last
    ret,          \* what the last is_chain_valid returned (NoRet before)
    out,          \* the lines printed by the current or last operation
    writes,       \* number of outside writes so far
    touched,      \* position and field of the last outside write
    clock,        \* what time.time() returns next
    threads,      \* concurrent callers of add_data: where each stands, its candidate
    overlapped    \* some add_data read the chain while another had yet to append

vars == <<chain, difficulty, pc, new_block, op, ret, out, writes, touched, clock,
          threads, overlapped>>

NoBlock == [index |-> 0, previous_hash |-> <<>>, timestamp |-> 0,
            data |-> <<>>, proof |-> 0, hash |-> <<>>]
NoRet == "none"
NoTouch == [pos |-> 0, field |-> "none", before |-> NoBlock]
Call(name, arg) == [name |-> name, arg |-> arg]

Threads == {1, 2}
NoThread == [pc |-> "idle", new_block |-> NoBlock]

GenesisData ==
    <<"G", "e", "n", "e", "s", "i", "s", " ", "B", "l", "o", "c", "k">>

\* Mutant: the genesis block is built with proof 1.
create_genesis_block_proof_one(now) == Block(0, <<"0">>, now, GenesisData, 1)

\* Mutant: the genesis block is built with index 1.
create_genesis_block_index_one(now) == Block(1, <<"0">>, now, GenesisData, 0)

create_genesis_block(now) == Block(0, <<"0">>, now, GenesisData, 0)

\* Mutant: the first block is taken for the latest (chain[0] for chain[-1]).
get_latest_block_first(ch) == ch[1]

get_latest_block(ch) == ch[Len(ch)]

Init ==
    /\ \E epoch \in Epochs :
          /\ chain = <<create_genesis_block(epoch)>>
          /\ clock = epoch + Tick
    /\ difficulty = 2
    /\ pc = "idle"
    /\ new_block = NoBlock
    /\ op = Call("init", <<>>)
    /\ ret = NoRet
    /\ out = <<>>
    /\ writes = 0
    /\ touched = NoTouch
    /\ threads = [t \in Threads |-> NoThread]
    /\ overlapped = FALSE

(***************************************************************************)
(* proof_of_work before its loop: the proof is reset.                      *)
(***************************************************************************)
\* Mutant: the search starts from the proof the candidate comes with.
pow_reset_missing(b) == b

pow_reset(b) == [b EXCEPT !.proof = 0]

(***************************************************************************)
(* add_data, up to the first iteration of the search: the candidate is     *)
(* built from the latest hash and the chain length, and proof_of_work      *)
(* resets its proof.                                                       *)
(***************************************************************************)
\* Mutant: the candidate's index is the chain length plus one.
AddDataBegin_index_off_by_one(data) ==
    /\ pc = "idle"
    /\ Len(chain) < MaxChain
    /\ LET previous_hash == get_latest_block(chain).hash
           candidate == Block(Len(chain) + 1, previous_hash, clock, data, 0)
       IN  new_block' = pow_reset(candidate)
    /\ clock' = clock + Tick
    /\ pc' = "mining"
    /\ op' = Call("add_data", data)
    /\ ret' = NoRet
    /\ out' = <<>>
    /\ UNCHANGED <<chain, difficulty, writes, touched, threads, overlapped>>

AddDataBegin(data) ==
    /\ pc = "idle"
    /\ Len(chain) < MaxChain
    /\ LET previous_hash == get_latest_block(chain).hash
           candidate == Block(Len(chain), previous_hash, clock, data, 0)
       IN  new_block' = pow_reset(candidate)
    /\ clock' = clock + Tick
    /\ pc' = "mining"
    /\ op' = Call("add_data", data)
    /\ ret' = NoRet
    /\ out' = <<>>
    /\ UNCHANGED <<chain, difficulty, writes, touched, threads, overlapped>>

(***************************************************************************)
(* One iteration of proof_of_work's loop.                                  *)
(***************************************************************************)
ProgressLine(proof) == [text |-> "Still mining... tried proof", n |-> proof]

\* Mutant: the proof is incremented before the test, so that the loop leaves
\* with a proof one past the one that was hashed.
pow_iteration_stale(b, diff) ==
    LET hashed == [b EXCEPT !.hash = calculate_hash(b)]
        next == [hashed EXCEPT !.proof = hashed.proof + 1]
    IN  IF StartsWith(hashed.hash, Zeros(diff))
        THEN [block |-> next, found |-> TRUE, printed |-> <<>>]
        ELSE [block |-> next, found |-> FALSE,
              printed |-> IF next.proof % 1000 = 0
                          THEN <<ProgressLine(next.proof)>> ELSE <<>>]

\* Mutant: the test asks for one leading zero, whatever the difficulty.
pow_iteration_one_zero(b, diff) ==
    LET hashed == [b EXCEPT !.hash = calculate_hash(b)]
    IN  IF StartsWith(hashed.hash, <<"0">>)
        THEN [block |-> hashed, found |-> TRUE, printed |-> <<>>]
        ELSE LET next == [hashed EXCEPT !.proof = hashed.proof + 1]
             IN  [block |-> next, found |-> FALSE,
                  printed |-> IF next.proof % 1000 = 0
                              THEN <<ProgressLine(next.proof)>> ELSE <<>>]

\* Mutant: a failed attempt advances the proof by two.
pow_iteration_skip(b, diff) ==
    LET hashed == [b EXCEPT !.hash = calculate_hash(b)]
    IN  IF StartsWith(hashed.hash, Zeros(diff))
        THEN [block |-> hashed, found |-> TRUE, printed |-> <<>>]
        ELSE LET next == [hashed EXCEPT !.proof = hashed.proof + 2]
             IN  [block |-> next, found |-> FALSE,
                  printed |-> IF next.proof % 1000 = 0
                              THEN <<ProgressLine(next.proof)>> ELSE <<>>]

\* Mutant: the progress test reads the proof before it is incremented.
pow_iteration_progress_early(b, diff) ==
    LET hashed == [b EXCEPT !.hash = calculate_hash(b)]
    IN  IF StartsWith(hashed.hash, Zeros(diff))
        THEN [block |-> hashed, found |-> TRUE, printed |-> <<>>]
        ELSE LET next == [hashed EXCEPT !.proof = hashed.proof + 1]
             IN  [block |-> next, found |-> FALSE,
                  printed |-> IF hashed.proof % 1000 = 0
                              THEN <<ProgressLine(next.proof)>> ELSE <<>>]

pow_iteration(b, diff) ==
    LET hashed == [b EXCEPT !.hash = calculate_hash(b)]
    IN  IF StartsWith(hashed.hash, Zeros(diff))
        THEN [block |-> hashed, found |-> TRUE, printed |-> <<>>]
        ELSE LET next == [hashed EXCEPT !.proof = hashed.proof + 1]
             IN  [block |-> next, found |-> FALSE,
                  printed |-> IF next.proof % 1000 = 0
                              THEN <<ProgressLine(next.proof)>> ELSE <<>>]

\* Mutant: the search is abandoned after three failed attempts.
PowStep_gives_up ==
    /\ pc = "mining"
    /\ new_block.proof < 3
    /\ LET r == pow_iteration(new_block, difficulty)
       IN  /\ new_block' = r.block
           /\ pc' = IF r.found THEN "mined" ELSE "mining"
           /\ out' = out \o r.printed
    /\ UNCHANGED <<chain, difficulty, op, ret, writes, touched, clock, threads, overlapped>>

PowStep ==
    /\ pc = "mining"
    /\ LET r == pow_iteration(new_block, difficulty)
       IN  /\ new_block' = r.block
           /\ pc' = IF r.found THEN "mined" ELSE "mining"
           /\ out' = out \o r.printed
    /\ UNCHANGED <<chain, difficulty, op, ret, writes, touched, clock, threads, overlapped>>

(***************************************************************************)
(* add_data after proof_of_work has returned: append and report.           *)
(***************************************************************************)
MinedLine(b) == [text |-> "mined with proof", block |-> b.index, n |-> b.proof]

\* Mutant: the mined block is inserted at the front of the chain.
AddDataEnd_prepend ==
    /\ pc = "mined"
    /\ chain' = <<new_block>> \o chain
    /\ out' = Append(out, MinedLine(new_block))
    /\ pc' = "idle"
    /\ new_block' = NoBlock
    /\ UNCHANGED <<difficulty, op, ret, writes, touched, clock, threads, overlapped>>

AddDataEnd ==
    /\ pc = "mined"
    /\ chain' = Append(chain, new_block)
    /\ out' = Append(out, MinedLine(new_block))
    /\ pc' = "idle"
    /\ new_block' = NoBlock
    /\ UNCHANGED <<difficulty, op, ret, writes, touched, clock, threads, overlapped>>

(***************************************************************************)
(* is_chain_valid: the walk over positions 1 .. len(chain)-1 and its first *)
(* diagnostic.  Positions are Python's: position i is ch[i + 1].           *)
(***************************************************************************)
HashMismatch(b) == [text |-> "hash mismatch!", block |-> b.index]
LinkMismatch(b) == [text |-> "previous hash doesn't match!", block |-> b.index]

\* Mutant: the link is checked before the hash.
RECURSIVE validate_from_link_first(_, _)
validate_from_link_first(ch, i) ==
    IF i >= Len(ch) THEN [ret |-> TRUE, out |-> <<>>]
    ELSE LET current == ch[i + 1]
             previous == ch[i]
         IN  IF current.previous_hash # previous.hash
             THEN [ret |-> FALSE, out |-> <<LinkMismatch(current)>>]
             ELSE IF current.hash # calculate_hash(current)
             THEN [ret |-> FALSE, out |-> <<HashMismatch(current)>>]
             ELSE validate_from_link_first(ch, i + 1)

\* Mutant: the walk also asks each block's hash for the leading zeros.
RECURSIVE validate_from_checking_proof(_, _)
validate_from_checking_proof(ch, i) ==
    IF i >= Len(ch) THEN [ret |-> TRUE, out |-> <<>>]
    ELSE LET current == ch[i + 1]
             previous == ch[i]
         IN  IF current.hash # calculate_hash(current)
                \/ ~StartsWith(current.hash, Zeros(difficulty))
             THEN [ret |-> FALSE, out |-> <<HashMismatch(current)>>]
             ELSE IF current.previous_hash # previous.hash
             THEN [ret |-> FALSE, out |-> <<LinkMismatch(current)>>]
             ELSE validate_from_checking_proof(ch, i + 1)

RECURSIVE validate_from(_, _)
validate_from(ch, i) ==
    IF i >= Len(ch) THEN [ret |-> TRUE, out |-> <<>>]
    ELSE LET current == ch[i + 1]
             previous == ch[i]
         IN  IF current.hash # calculate_hash(current)
             THEN [ret |-> FALSE, out |-> <<HashMismatch(current)>>]
             ELSE IF current.previous_hash # previous.hash
             THEN [ret |-> FALSE, out |-> <<LinkMismatch(current)>>]
             ELSE validate_from(ch, i + 1)

\* Mutant: the walk starts at position 2.
is_chain_valid_from_two(ch) == validate_from(ch, 2)

is_chain_valid(ch) == validate_from(ch, 1)

\* Mutant: the walk assigns each recomputed hash to the block.
IsChainValid_repairing ==
    /\ pc = "idle"
    /\ LET r == is_chain_valid(chain)
       IN  /\ ret' = r.ret
           /\ out' = r.out
    /\ chain' = [i \in 1..Len(chain) |->
                    [chain[i] EXCEPT !.hash = calculate_hash(chain[i])]]
    /\ op' = Call("is_chain_valid", <<>>)
    /\ UNCHANGED <<difficulty, pc, new_block, writes, touched, clock, threads, overlapped>>

IsChainValid ==
    /\ pc = "idle"
    /\ LET r == is_chain_valid(chain)
       IN  /\ ret' = r.ret
           /\ out' = r.out
    /\ op' = Call("is_chain_valid", <<>>)
    /\ UNCHANGED <<chain, difficulty, pc, new_block, writes, touched, clock, threads, overlapped>>

(***************************************************************************)
(* An outside write: a caller holding the chain assigns one field of one   *)
(* block a different value.  Nothing in the engine does this; it is the    *)
(* tampering that is_chain_valid is there to detect.                       *)
(***************************************************************************)
Fields == {"index", "previous_hash", "timestamp", "data", "proof", "hash"}

Forged == <<"f", "f">>

FieldValues(ch, pos, field) ==
    CASE field = "index" -> {1, 2}
      [] field = "previous_hash" -> {Forged}
      [] field = "timestamp" -> {5}
      [] field = "data" -> {<<"x">>}
      [] field = "proof" -> {3}
      [] field = "hash" -> {Forged, calculate_hash(ch[pos + 1])}

Write(pos, field, value) ==
    /\ pc = "idle"
    /\ writes < MaxWrites
    /\ value # chain[pos + 1][field]
    /\ chain' = [chain EXCEPT ![pos + 1][field] = value]
    /\ writes' = writes + 1
    /\ touched' = [pos |-> pos, field |-> field, before |-> chain[pos + 1]]
    /\ op' = Call("write", <<>>)
    /\ ret' = NoRet
    /\ out' = <<>>
    /\ UNCHANGED <<difficulty, pc, new_block, clock, threads, overlapped>>

Next ==
    \/ \E data \in Data : AddDataBegin(data)
    \/ PowStep
    \/ AddDataEnd
    \/ IsChainValid

Spec == Init /\ [][Next]_vars

NextTamper ==
    \/ Next
    \/ \E pos \in 0..(Len(chain) - 1), field \in Fields :
          \E value \in FieldValues(chain, pos, field) : Write(pos, field, value)

SpecTamper == Init /\ [][NextTamper]_vars

(***************************************************************************)
(* Outside writes made with knowledge of calculate_hash.  The first moves  *)
(* the boundary between a block's data and its proof: it assigns both      *)
(* fields so that str(data) + str(proof) reads as before.  The second      *)
(* assigns the last block new data and then the hash calculate_hash()      *)
(* gives for it, without a new proof search.                               *)
(***************************************************************************)
IsDigit(c) == \E d \in 1..10 : Digits[d] = c

DigitValue(c) == (CHOOSE d \in 1..10 : Digits[d] = c) - 1

RECURSIVE ParseInt(_)
ParseInt(s) == IF Len(s) = 0 THEN 0
               ELSE 10 * ParseInt(SubSeq(s, 1, Len(s) - 1)) + DigitValue(s[Len(s)])

\* The (data, proof) pairs other than b's own that serialize as b's do.
Resplits(b) ==
    LET joined == b.data \o Str(b.proof)
        Rest(k) == SubSeq(joined, k + 1, Len(joined))
        cuts == {k \in 1..(Len(joined) - 1) :
                    /\ \A i \in (k + 1)..Len(joined) : IsDigit(joined[i])
                    /\ Str(ParseInt(Rest(k))) = Rest(k)
                    /\ SubSeq(joined, 1, k) # b.data}
    IN  {[data |-> SubSeq(joined, 1, k), proof |-> ParseInt(Rest(k))] : k \in cuts}

WriteDataAndProof(pos, w) ==
    /\ pc = "idle"
    /\ writes < MaxWrites
    /\ chain' = [chain EXCEPT ![pos + 1].data = w.data, ![pos + 1].proof = w.proof]
    /\ writes' = writes + 1
    /\ touched' = [pos |-> pos, field |-> "data+proof", before |-> chain[pos + 1]]
    /\ op' = Call("write", <<>>)
    /\ ret' = NoRet
    /\ out' = <<>>
    /\ UNCHANGED <<difficulty, pc, new_block, clock, threads, overlapped>>

WriteDataAndRehash(value) ==
    LET pos == Len(chain) - 1
        rewritten == [chain[pos + 1] EXCEPT !.data = value]
    IN  /\ pc = "idle"
        /\ writes < MaxWrites
        /\ value # chain[pos + 1].data
        /\ chain' = [chain EXCEPT ![pos + 1] =
                         [rewritten EXCEPT !.hash = calculate_hash(rewritten)]]
        /\ writes' = writes + 1
        /\ touched' = [pos |-> pos, field |-> "data+hash", before |-> chain[pos + 1]]
        /\ op' = Call("write", <<>>)
        /\ ret' = NoRet
        /\ out' = <<>>
        /\ UNCHANGED <<difficulty, pc, new_block, clock, threads, overlapped>>

NextCraft ==
    \/ Next
    \/ \E pos \in 0..(Len(chain) - 1) :
          \E w \in Resplits(chain[pos + 1]) : WriteDataAndProof(pos, w)
    \/ \E value \in FieldValues(chain, Len(chain) - 1, "data") :
          WriteDataAndRehash(value)

SpecCraft == Init /\ [][NextCraft]_vars

(***************************************************************************)
(* add_data called from concurrent threads.  Each thread runs the steps of *)
(* add_data on its own candidate; the steps of different threads           *)
(* interleave.  Lines 63-71 (the reads of the latest hash and of the chain *)
(* length, the construction, the reset of the proof) are one step.         *)
(***************************************************************************)
Active(t) == threads[t].pc # "idle"

\* Thread u has read the chain and nothing has been appended since.
ReadCurrent(u) == Active(u) /\ threads[u].new_block.index = Len(chain)

RaceBegin(t, data) ==
    /\ threads[t].pc = "idle"
    /\ Len(chain) + Cardinality({u \in Threads : Active(u)}) < MaxChain
    /\ LET previous_hash == get_latest_block(chain).hash
           candidate == Block(Len(chain), previous_hash, clock, data, 0)
       IN  threads' = [threads EXCEPT ![t] =
                          [pc |-> "mining",
                           new_block |-> pow_reset(candidate)]]
    /\ overlapped' = (overlapped \/ \E u \in Threads \ {t} : ReadCurrent(u))
    /\ clock' = clock + Tick
    /\ op' = Call("add_data", data)
    /\ ret' = NoRet
    /\ out' = <<>>
    /\ UNCHANGED <<chain, difficulty, pc, new_block, writes, touched>>

RacePowStep(t) ==
    /\ threads[t].pc = "mining"
    /\ LET r == pow_iteration(threads[t].new_block, difficulty)
       IN  /\ threads' = [threads EXCEPT ![t] =
                              [pc |-> IF r.found THEN "mined" ELSE "mining",
                               new_block |-> r.block]]
           /\ out' = out \o r.printed
    /\ UNCHANGED <<chain, difficulty, pc, new_block, op, ret, writes, touched,
                   clock, overlapped>>

\* Mutant: the index is assigned when the block is appended.
RaceEnd_late_index(t) ==
    /\ threads[t].pc = "mined"
    /\ chain' = Append(chain, [threads[t].new_block EXCEPT !.index = Len(chain)])
    /\ out' = Append(out, MinedLine(threads[t].new_block))
    /\ threads' = [threads EXCEPT ![t] = NoThread]
    /\ op' = Call("add_data", threads[t].new_block.data)
    /\ ret' = NoRet
    /\ UNCHANGED <<difficulty, pc, new_block, writes, touched, clock, overlapped>>

RaceEnd(t) ==
    /\ threads[t].pc = "mined"
    /\ chain' = Append(chain, threads[t].new_block)
    /\ out' = Append(out, MinedLine(threads[t].new_block))
    /\ threads' = [threads EXCEPT ![t] = NoThread]
    /\ op' = Call("add_data", threads[t].new_block.data)
    /\ ret' = NoRet
    /\ UNCHANGED <<difficulty, pc, new_block, writes, touched, clock, overlapped>>

NextRace ==
    \/ \E t \in Threads, data \in Data : RaceBegin(t, data)
    \/ \E t \in Threads : RacePowStep(t)
    \/ \E t \in Threads : RaceEnd(t)
    \/ IsChainValid

SpecRace == Init /\ [][NextRace]_vars

(***************************************************************************)
(* proof_of_work on its own: a Blockchain whose difficulty is one of       *)
(* Difficulties, and a candidate for position 1 that comes with any of     *)
(* InitialProofs.  A search is followed up to proof MaxProof.  When the    *)
(* search has returned, proof_of_work may be called again, on the mined    *)
(* block or on a block of the same fields that comes with another proof or *)
(* another hash; op.arg counts the calls and keeps the previous result.    *)
(***************************************************************************)
InitPow ==
    /\ \E epoch \in Epochs, data \in Data, proof \in InitialProofs :
          LET genesis == create_genesis_block(epoch)
          IN  /\ chain = <<genesis>>
              /\ new_block = Block(1, genesis.hash, epoch + Tick, data, proof)
              /\ clock = epoch + Tick + Tick
    /\ difficulty \in Difficulties
    /\ pc = "called"
    /\ op = Call("proof_of_work", [run |-> 1, prior |-> NoBlock])
    /\ ret = NoRet
    /\ out = <<>>
    /\ writes = 0
    /\ touched = NoTouch
    /\ threads = [t \in Threads |-> NoThread]
    /\ overlapped = FALSE

PowReset ==
    /\ pc = "called"
    /\ new_block' = pow_reset(new_block)
    /\ pc' = "mining"
    /\ UNCHANGED <<chain, difficulty, op, ret, out, writes, touched, clock,
                   threads, overlapped>>

PowStepBounded == new_block.proof < MaxProof /\ PowStep

Resubmissions(b) ==
    {b, [b EXCEPT !.hash = Forged]}
        \cup {Block(b.index, b.previous_hash, b.timestamp, b.data, proof) :
                  proof \in InitialProofs}

PowAgain(b) ==
    /\ pc = "mined"
    /\ op.arg.run < MaxRuns
    /\ new_block' = b
    /\ pc' = "called"
    /\ op' = Call("proof_of_work", [run |-> op.arg.run + 1, prior |-> new_block])
    /\ out' = <<>>
    /\ UNCHANGED <<chain, difficulty, ret, writes, touched, clock,
                   threads, overlapped>>

NextPow ==
    \/ PowReset
    \/ PowStepBounded
    \/ \E b \in Resubmissions(new_block) : PowAgain(b)

SpecPow == InitPow /\ [][NextPow]_vars

(***************************************************************************)
(* The engine with a caller that is never suspended for good: a call of    *)
(* add_data that can take its next step eventually takes it.               *)
(***************************************************************************)
SpecLive == Spec /\ WF_vars(PowStep) /\ WF_vars(AddDataEnd)

(***************************************************************************)
(* Properties.                                                             *)
(***************************************************************************)
HashBad(ch, i) == ch[i + 1].hash # calculate_hash(ch[i + 1])
LinkBad(ch, i) == ch[i + 1].previous_hash # ch[i].hash
Failing(ch) == {i \in 1..(Len(ch) - 1) : HashBad(ch, i) \/ LinkBad(ch, i)}
Lowest(S) == CHOOSE i \in S : \A j \in S : i <= j
Validated == op.name = "is_chain_valid"
AddDataReturns == pc = "mined" /\ pc' = "idle"

\* C1: after construction and any number of completed add_data calls, with
\* no outside write, is_chain_valid() returns true; every block from
\* position 1 on links to its predecessor's hash and stores the hash of its
\* own fields.
C1_ValidityRoundTrip ==
    /\ is_chain_valid(chain).ret = TRUE
    /\ \A i \in 1..(Len(chain) - 1) :
          /\ chain[i + 1].previous_hash = chain[i].hash
          /\ chain[i + 1].hash = calculate_hash(chain[i + 1])
    /\ Validated => ret = TRUE

C1_Witness == Validated /\ ret = TRUE /\ Len(chain) >= 3

\* C2: a completed add_data(d) on a chain of N blocks leaves N+1 blocks; the
\* new last block has index N, data d and the hash of the old last block as
\* previous_hash; the chain is not touched before the append.
C2_AppendGrowth ==
    [][/\ pc' \in {"mining", "mined"} => chain' = chain
       /\ AddDataReturns =>
             LET N == Len(chain)
             IN  /\ Len(chain') = N + 1
                 /\ chain'[N + 1].index = N
                 /\ chain'[N + 1].data = op.arg
                 /\ chain'[N + 1].previous_hash = chain[N].hash]_vars

C2_Witness == op.name = "add_data" /\ pc = "idle" /\ Len(chain) >= 3

\* C3: when proof_of_work returns, the candidate's hash starts with
\* `difficulty` zeros and is the hash of the candidate's final fields.
C3_ProofOfWorkPostcondition ==
    pc = "mined" =>
        /\ StartsWith(new_block.hash, Zeros(difficulty))
        /\ new_block.hash = calculate_hash(new_block)

C3_Witness == pc = "mined" /\ new_block.proof > 0

\* C4: after a single outside write to a field other than hash of a
\* non-genesis block of a chain built by add_data, is_chain_valid() returns
\* false, provided the digest tells the old content from the new.
SingleFieldWrite ==
    writes = 1 /\ touched.pos >= 1 /\ touched.field # "hash"

DigestTellsApart(b1, b2) ==
    block_content(b1) # block_content(b2) => calculate_hash(b1) # calculate_hash(b2)

C4_FieldTamperDetected ==
    (SingleFieldWrite /\ DigestTellsApart(touched.before, chain[touched.pos + 1]))
        => /\ is_chain_valid(chain).ret = FALSE
           /\ Validated => ret = FALSE

C4_Witness ==
    /\ SingleFieldWrite /\ touched.field = "data"
    /\ DigestTellsApart(touched.before, chain[touched.pos + 1])
    /\ Validated /\ ret = FALSE

\* C5: after a single outside write that sets the previous_hash of any block,
\* genesis included, to a value unrelated to its predecessor,
\* is_chain_valid() returns false.
UnrelatedLink(ch, pos) ==
    IF pos = 0 THEN ch[1].previous_hash # <<"0">> ELSE LinkBad(ch, pos)

C5_LinkTamperDetected ==
    (writes = 1 /\ touched.field = "previous_hash" /\ UnrelatedLink(chain, touched.pos))
        => is_chain_valid(chain).ret = FALSE

\* C6: whenever some block, at any position including 0, stores a hash that
\* differs from the hash of its current fields, is_chain_valid() returns
\* false.
C6_DigestViolationDetected ==
    (\E i \in 1..Len(chain) : chain[i].hash # calculate_hash(chain[i]))
        => is_chain_valid(chain).ret = FALSE

\* C7: a freshly constructed Blockchain has exactly one block, with index 0,
\* previous_hash "0", data "Genesis Block", proof 0 and the hash of those
\* fields, and difficulty 2.
C7_GenesisShape ==
    op.name = "init" =>
        /\ Len(chain) = 1
        /\ chain[1].index = 0
        /\ chain[1].previous_hash = <<"0">>
        /\ chain[1].data = <<"G", "e", "n", "e", "s", "i", "s", " ",
                             "B", "l", "o", "c", "k">>
        /\ chain[1].proof = 0
        /\ chain[1].hash = calculate_hash(chain[1])
        /\ difficulty = 2

C7_Witness == op.name = "init" /\ pc = "idle" /\ Len(chain) = 1

\* C8: across every step of the engine the old chain is a prefix of the new
\* one, the length grows by exactly one when add_data returns and not at all
\* otherwise, and difficulty keeps its initial value.
C8_AppendOnly ==
    [][/\ Len(chain') >= Len(chain)
       /\ SubSeq(chain', 1, Len(chain)) = chain
       /\ Len(chain') = Len(chain) + (IF AddDataReturns THEN 1 ELSE 0)
       /\ difficulty' = difficulty
       /\ difficulty' = 2]_vars

C8_Witness == pc = "mining" /\ Len(chain) >= 2 /\ new_block.proof > 0

\* C9: a call of is_chain_valid, on a tampered chain or not and whatever it
\* returns, leaves the chain and difficulty as they were.
C9_ValidationReadOnly ==
    [][Validated' => (chain' = chain /\ difficulty' = difficulty)]_vars

C9_Witness == Validated /\ ret = FALSE /\ writes >= 1 /\ Len(chain) >= 2

\* The line is_chain_valid() is to print for a chain: none when no block from
\* position 1 on fails a check, else one line about the failing block of
\* lowest position, the hash mismatch taking precedence; Name(p) is the
\* number by which the line refers to the block at position p.
ExpectedReport(ch, Name(_)) ==
    LET bad == Failing(ch)
    IN  IF bad = {} THEN [ret |-> TRUE, out |-> <<>>]
        ELSE LET p == Lowest(bad)
             IN  [ret |-> FALSE,
                  out |-> <<[text |-> IF HashBad(ch, p)
                                      THEN "hash mismatch!"
                                      ELSE "previous hash doesn't match!",
                             block |-> Name(p)]>>]

\* C10 (as amended): is_chain_valid() returns true exactly when no block from
\* position 1 on fails the hash check or the link check; otherwise it returns
\* false and prints one line, about the failing block of lowest position,
\* which reports the hash mismatch when that block fails both checks; the
\* line refers to the block by the index the block stores.
C10_FirstViolationReported ==
    LET StoredIndex(p) == chain[p + 1].index
        e == ExpectedReport(chain, StoredIndex)
    IN  /\ is_chain_valid(chain) = e
        /\ Validated => (ret = e.ret /\ out = e.out)

\* C10 (as claimed): the same, with the line naming the position of the
\* failing block.
C10_ReportNamesPosition ==
    LET Position(p) == p
        e == ExpectedReport(chain, Position)
    IN  /\ is_chain_valid(chain) = e
        /\ Validated => (ret = e.ret /\ out = e.out)

C10_Witness ==
    /\ Validated /\ ret = FALSE /\ Len(out) = 1
    /\ Failing(chain) # {}
    /\ LET p == Lowest(Failing(chain))
       IN  HashBad(chain, p) /\ LinkBad(chain, p) /\ out[1].text = "hash mismatch!"

\* Proof p gives block b a digest with `diff` leading zeros.
Qualifies(b, p, diff) ==
    StartsWith(calculate_hash([b EXCEPT !.proof = p]), Zeros(diff))

HasProof(b, diff) == \E p \in 0..MaxProof : Qualifies(b, p, diff)

\* C11: add_data has no rejection or error path: it can be called with any
\* data, a call under way can always take its next step, and the only way it
\* returns is by appending its candidate; and a call whose candidate has some
\* qualifying proof eventually returns.
C11_AddDataTerminates ==
    /\ [](pc = "idle" /\ Len(chain) < MaxChain
            => \A data \in Data : ENABLED AddDataBegin(data))
    /\ [](pc = "mining" => ENABLED PowStep)
    /\ [](pc = "mined" => ENABLED AddDataEnd)
    /\ [][pc # "idle" /\ pc' = "idle" => chain' = Append(chain, new_block)]_vars
    /\ (pc = "mining" /\ new_block.proof = 0 /\ HasProof(new_block, difficulty))
          ~> (pc = "idle")

C11_Witness ==
    /\ op.name = "add_data" /\ pc = "idle"
    /\ chain[Len(chain)].proof >= 10
    /\ HasProof(chain[Len(chain)], difficulty)

\* C12: in every state reached by construction and add_data calls run one at
\* a time, the block at each position stores that position as its index.
C12_IndexContinuity ==
    \A i \in 0..(Len(chain) - 1) : chain[i + 1].index = i

C12_Witness ==
    Len(chain) = 3 /\ op.name = "add_data" /\ chain[3].index = 2

\* C13: in every state reached without outside writes, the states in the
\* middle of a proof search included, every block of the chain, genesis
\* included, stores the hash of its own fields; a candidate under search,
\* whose hash may be stale, is not in the chain.
C13_DigestIntegrity ==
    /\ \A i \in 1..Len(chain) : chain[i].hash = calculate_hash(chain[i])
    /\ pc = "mining" =>
          /\ new_block.index = Len(chain)
          /\ \A i \in 1..Len(chain) : chain[i] # new_block

C13_Witness ==
    /\ pc = "mining" /\ Len(chain) >= 2
    /\ new_block.hash # calculate_hash(new_block)

\* C17: in every state reached by add_data without outside writes the hash
\* of every non-genesis block starts with `difficulty` zeros.  (The genesis
\* block is never mined: C17_Witness is a chain whose genesis hash does not.)
C17_MinedBlocksQualify ==
    \A i \in 2..Len(chain) : StartsWith(chain[i].hash, Zeros(difficulty))

C17_Witness ==
    /\ Len(chain) >= 3
    /\ StartsWith(chain[3].hash, Zeros(difficulty))
    /\ ~StartsWith(chain[1].hash, Zeros(difficulty))

\* C14: two add_data calls that have both read the chain before either
\* appends hold candidates with the same index and the same previous_hash;
\* once both have appended, index continuity and linkage are broken and
\* is_chain_valid() returns false.  While every call completes before the
\* next starts, no two blocks share an index or a previous_hash.
SharedIndex(ch) ==
    \E i, j \in 1..Len(ch) : i < j /\ ch[i].index = ch[j].index

SharedPredecessor(ch) ==
    \E i, j \in 1..Len(ch) : i < j /\ ch[i].previous_hash = ch[j].previous_hash

C14_InterleavedAppends ==
    /\ [][\A t, u \in Threads :
            (/\ t # u /\ ~Active(t) /\ Active(t)'
             /\ Active(u) /\ Len(chain) = threads[u].new_block.index)
            => /\ overlapped'
               /\ threads'[t].new_block.index = threads'[u].new_block.index
               /\ threads'[t].new_block.previous_hash
                     = threads'[u].new_block.previous_hash]_vars
    /\ []((overlapped /\ \A t \in Threads : ~Active(t)) =>
            /\ SharedIndex(chain) /\ SharedPredecessor(chain)
            /\ \E i \in 0..(Len(chain) - 1) : chain[i + 1].index # i
            /\ \E i \in 1..(Len(chain) - 1) : LinkBad(chain, i)
            /\ is_chain_valid(chain).ret = FALSE
            /\ Validated => ret = FALSE)
    /\ [](~overlapped => (~SharedIndex(chain) /\ ~SharedPredecessor(chain)))

C14_Witness ==
    /\ overlapped /\ \A t \in Threads : ~Active(t)
    /\ Validated /\ ret = FALSE
    /\ chain[2].index = chain[3].index
    /\ chain[2].previous_hash = chain[3].previous_hash

\* C15: the serialization is not injective: an outside write that changes
\* the adjacent fields data and proof of a block while str(data) + str(proof)
\* reads the same leaves a different block with the same content string and
\* the same calculate_hash(), and is_chain_valid() still returns true.
C15_BoundaryShiftUndetected ==
    touched.field = "data+proof" =>
        LET before == touched.before
            after == chain[touched.pos + 1]
        IN  /\ after.data # before.data /\ after.proof # before.proof
            /\ block_content(after) = block_content(before)
            /\ calculate_hash(after) = calculate_hash(before)
            /\ after.hash = calculate_hash(after)
            /\ is_chain_valid(chain).ret = TRUE
            /\ Validated => ret = TRUE

C15_Witness ==
    /\ touched.field = "data+proof" /\ touched.pos >= 1
    /\ touched.before.data = <<"b", "1">>
    /\ chain[touched.pos + 1].data = <<"b">>
    /\ Validated /\ ret = TRUE

\* C18: is_chain_valid() does not ask for the leading zeros: after the last
\* block's data has been changed and its hash set to what calculate_hash()
\* gives, with no new proof search, is_chain_valid() returns true, also when
\* that hash does not start with `difficulty` zeros.
C18_RehashedBlockAccepted ==
    touched.field = "data+hash" =>
        /\ chain[touched.pos + 1].hash = calculate_hash(chain[touched.pos + 1])
        /\ is_chain_valid(chain).ret = TRUE
        /\ Validated => ret = TRUE

C18_Witness ==
    /\ touched.field = "data+hash" /\ touched.pos >= 1
    /\ touched.pos = Len(chain) - 1
    /\ ~StartsWith(chain[touched.pos + 1].hash, Zeros(difficulty))
    /\ Validated /\ ret = TRUE

\* C16: proof_of_work tries the proofs 0, 1, 2, ... in increasing order and
\* skips none, so that the proof it returns with is the least non-negative
\* one whose digest has `difficulty` leading zeros; with difficulty 0 that is
\* proof 0.
C16_LeastProof ==
    /\ [][/\ pc = "called" => new_block'.proof = 0
          /\ (pc = "mining" /\ pc' = "mining") =>
                /\ ~Qualifies(new_block, new_block.proof, difficulty)
                /\ new_block'.proof = new_block.proof + 1
          /\ (pc = "mining" /\ pc' = "mined") =>
                /\ Qualifies(new_block, new_block.proof, difficulty)
                /\ new_block'.proof = new_block.proof]_vars
    /\ [](pc = "mined" =>
            /\ Qualifies(new_block, new_block.proof, difficulty)
            /\ \A q \in 0..(new_block.proof - 1) :
                  ~Qualifies(new_block, q, difficulty)
            /\ difficulty = 0 => new_block.proof = 0)

C16_Witness == pc = "mined" /\ difficulty = 2 /\ new_block.proof >= 10

\* C19: proof_of_work changes the candidate's proof and hash only: index,
\* previous_hash, timestamp and data, the chain and difficulty stay as they
\* are.  Its result does not depend on the proof or hash the candidate comes
\* with: a second call, on the mined block or on a block of the same fields
\* with another proof or hash, returns with the same proof and hash.
C19_SearchIdempotent ==
    /\ [][(pc = "called" \/ pc = "mining") =>
             (/\ new_block'.index = new_block.index
              /\ new_block'.previous_hash = new_block.previous_hash
              /\ new_block'.timestamp = new_block.timestamp
              /\ new_block'.data = new_block.data
              /\ chain' = chain
              /\ difficulty' = difficulty)]_vars
    /\ []((pc = "mined" /\ op.arg.run >= 2) =>
             /\ new_block.proof = op.arg.prior.proof
             /\ new_block.hash = op.arg.prior.hash)

C19_Witness ==
    pc = "mined" /\ op.arg.run >= 2 /\ new_block.proof >= 10 /\ difficulty = 2

\* C20: the progress line is printed exactly once after each 1000th
\* consecutive failed attempt, when the incremented proof is a positive
\* multiple of 1000, and never for proof 0; printing it leaves the step what
\* it is without it, and the search returns with a qualifying proof.
C20_ProgressEveryThousand ==
    /\ [](pc \in {"mining", "mined"} =>
            out = [k \in 1..(new_block.proof \div 1000) |-> ProgressLine(1000 * k)])
    /\ [][(pc = "mining" /\ out' # out) =>
             (/\ pc' = "mining"
              /\ new_block' = [new_block EXCEPT !.hash = calculate_hash(new_block),
                                                !.proof = new_block.proof + 1])]_vars
    /\ [](pc = "mined" =>
            /\ Qualifies(new_block, new_block.proof, difficulty)
            /\ new_block.hash = calculate_hash(new_block))

C20_Witness == pc = "mined" /\ Len(out) >= 1 /\ new_block.proof > 1000

=============================================================================
